---- MODULE Spec2Model ----
(***************************************************************************)
(* Transparent proxy worker in front of an R2 bucket (src/src/index.js).   *)
(*                                                                         *)
(* Every request runs the fetch handler.  The handler suspends at each     *)
(* await on a binding (CONFIG_KV.get, R2_BUCKET.get/put/delete, the        *)
(* origin fetch, SYNC_QUEUE.send); between two awaits its code runs        *)
(* without interruption.  One action of the model is one such run: the     *)
(* completion of the awaited call together with all the code up to the     *)
(* next await or to the response.  Requests of different slots interleave  *)
(* at the awaits and share CONFIG, the bucket and the queue.               *)
(***************************************************************************)
EXTENDS Integers, Sequences, FiniteSets, TLC

\* ---------------------------------------------------------------- bounds
\* Number of requests that can be in flight at the same time.
MaxInflight == 1

\* Number of messages in SYNC_QUEUE from which no further request is taken.
MaxQueued == 1

\* ---------------------------------------------------------------- values
Reqs == 1..MaxInflight

\* null / undefined where an object is expected.
Null == [null |-> TRUE]

\* Object keys as produced by pathParts.join('/'): "" when the path has no
\* segment.  Absent strings (a header that is not set, undefined) are "",
\* which JavaScript treats as false exactly like null.
EmptyKey == ""
ObjectKeys == {"k"}
Keys == ObjectKeys \cup {EmptyKey}

Methods == {"GET", "HEAD", "PUT", "DELETE", "OPTIONS", "POST"}

\* A hostname is the sequence of its leading tokens; an anchored pattern
\* /^p/ is the sequence of tokens it requires at the start.  The empty
\* sequence is the pattern text that is not set.
Hostnames == {<<"read-", "h">>, <<"write-", "h">>, <<"cdn">>}

\* Source text of a pattern that new RegExp() rejects.
Malformed == <<"(">>

DEFAULT_CACHE_CONTROL == "public, max-age=86400"

\* CONFIG as the module is loaded (lines 9-24).
DefaultConfig ==
  [ READ_HOSTNAME_PATTERN  |-> <<"read-">>,
    WRITE_HOSTNAME_PATTERN |-> <<"write-">>,
    SOURCE_STORAGE         |-> [endpoint |-> "", bucketName |-> ""] ]

\* What the configuration store can hold.
KVStates ==
  { [source_storage_config |-> Null,
     read_hostname_pattern |-> <<>>, write_hostname_pattern |-> <<>>],
    [source_storage_config |-> [endpoint |-> "https://origin", bucketName |-> "b"],
     read_hostname_pattern |-> <<>>, write_hostname_pattern |-> <<"cdn">>],
    [source_storage_config |-> [endpoint |-> "https://origin", bucketName |-> "b"],
     read_hostname_pattern |-> Malformed, write_hostname_pattern |-> <<"cdn">>] }

\* The object the origin can hold, as the headers and body of the response
\* that serves it.
OriginObject ==
  [content |-> "origin-bytes", ETag |-> "abc", ContentType |-> "image/png",
   ContentLength |-> "12", CacheControl |-> ""]

\* The headers and body of an origin response that is an error document.
OriginErrorDocument ==
  [content |-> "<Error>", ETag |-> "", ContentType |-> "application/xml",
   ContentLength |-> "7", CacheControl |-> ""]

\* What a client can upload: a body, and headers (custom metadata is the
\* set of <<name, value>> pairs of its x-amz-meta-* headers).
PutBodies == {"client-bytes"}
PutHeaders ==
  { [ContentType |-> "", CacheControl |-> "", meta |-> {}],
    [ContentType |-> "text/plain", CacheControl |-> "no-cache",
     meta |-> {<<"owner", "me">>}] }
NoHeaders == [ContentType |-> "", CacheControl |-> "", meta |-> {}]

\* ---------------------------------------------------------------- errors
NoError == [name |-> "", message |-> "", status |-> 0, code |-> ""]

StorageErrorOf(message, status, code) ==
  [name |-> "StorageError", message |-> message, status |-> status, code |-> code]

\* An exception that is not a StorageError (thrown by the platform or by a
\* binding): it has a message but neither status nor code (0 and "" stand
\* for undefined, both false in JavaScript).
PlatformError(name, message) ==
  [name |-> name, message |-> message, status |-> 0, code |-> ""]

formatErrorResponse(error) ==
  [ status  |-> IF error.status = 0 THEN 500 ELSE error.status,
    code    |-> IF error.code = "" THEN "InternalError" ELSE error.code,
    message |-> IF error.message = "" THEN "Internal Server Error" ELSE error.message,
    body    |-> "<Error>",
    headers |-> [ContentType |-> "application/xml", ContentLength |-> "", ETag |-> "",
                 CacheControl |-> "", meta |-> {}, AccessControlAllowOrigin |-> ""] ]

\* ---------------------------------------------------------------- helpers
\* RegExp.test for an anchored prefix pattern.
Matches(pattern, hostname) ==
  /\ Len(pattern) <= Len(hostname)
  /\ SubSeq(hostname, 1, Len(pattern)) = pattern

\* Line 54.
isWriteOperation(cfg, hostname) == Matches(cfg.WRITE_HOSTNAME_PATTERN, hostname)

\* Line 55 (computed by the handler, used by nothing).
isReadOperation(cfg, hostname) ==
  Matches(cfg.READ_HOSTNAME_PATTERN, hostname) \/ ~isWriteOperation(cfg, hostname)

\* validateAuth without the check of the header.
validateAuth_NoCheck(isWrite, authHeader) == NoError

\* validateAuth asking every host for the header.
validateAuth_EveryHost(isWrite, authHeader) ==
  IF ~authHeader
    THEN StorageErrorOf("Authentication required", 401, "AccessDenied")
    ELSE NoError

\* validateAuth: the error it throws, NoError when it returns true.
validateAuth(isWrite, authHeader) ==
  IF isWrite /\ ~authHeader
    THEN StorageErrorOf("Authentication required", 401, "AccessDenied")
    ELSE NoError

\* What a store holds under a key: Null for a key it has never been given.
Held(store, objectKey) == IF objectKey \in DOMAIN store THEN store[objectKey] ELSE Null

\* Object spread {...a, ...b} on sets of <<name, value>> pairs.
Spread(a, b) == {p \in a : \A q \in b : q[1] # p[1]} \cup b

\* The ETag R2 computes for a stored body.
R2Etag(content) == "md5-" \o content

\* A fresh single-consume stream over content.
Stream(content) == [content |-> content, disturbed |-> FALSE]

\* What R2_BUCKET.get returns for a stored object: an R2ObjectBody.
R2ObjectBody(stored) ==
  [ body           |-> Stream(stored.content),
    httpEtag       |-> stored.httpEtag,
    httpMetadata   |-> [contentType |-> stored.httpMetadata.contentType,
                        contentLength |-> "",
                        cacheControl |-> stored.httpMetadata.cacheControl],
    customMetadata |-> stored.customMetadata ]

\* What R2_BUCKET.put stores: the body's bytes, the two http metadata
\* fields the call passes that R2 keeps, the custom metadata, its own ETag.
R2Stored(content, httpMetadata, customMetadata) ==
  [ content        |-> content,
    httpEtag       |-> R2Etag(content),
    httpMetadata   |-> [contentType |-> httpMetadata.contentType,
                        cacheControl |-> httpMetadata.cacheControl],
    customMetadata |-> customMetadata ]

\* Lines 301-313: the simulated R2 object built from an origin response.
SimulatedR2Object(response) ==
  [ body           |-> Stream(response.content),
    httpEtag       |-> response.ETag,
    httpMetadata   |-> [contentType |-> response.ContentType,
                        contentLength |-> response.ContentLength,
                        cacheControl |-> response.CacheControl],
    customMetadata |-> {<<"source", "lazy-loaded">>} ]

\* getResponseHeaders (Last-Modified, a date, is left out).
getResponseHeaders(object) ==
  [ ContentType  |-> IF object.httpMetadata.contentType = ""
                       THEN "application/octet-stream"
                       ELSE object.httpMetadata.contentType,
    ContentLength |-> object.httpMetadata.contentLength,
    ETag          |-> object.httpEtag,
    CacheControl  |-> IF object.httpMetadata.cacheControl = ""
                        THEN DEFAULT_CACHE_CONTROL
                        ELSE object.httpMetadata.cacheControl,
    meta          |-> object.customMetadata,
    AccessControlAllowOrigin |-> "*" ]

\* A success response.
Response(status, body, headers) ==
  [status |-> status, code |-> "", message |-> "", body |-> body, headers |-> headers]

\* A response built without headers (new Response(null, {status: 204})).
NoResponseHeaders ==
  [ContentType |-> "", ContentLength |-> "", ETag |-> "", CacheControl |-> "",
   meta |-> {}, AccessControlAllowOrigin |-> ""]

\* handleOptionsRequest.
handleOptionsRequest ==
  Response(200, "",
    [ContentType |-> "", ContentLength |-> "", ETag |-> "", CacheControl |-> "",
     meta |-> {}, AccessControlAllowOrigin |-> "*"])

\* ------------------------------------------------------------------ state
VARIABLES
  CONFIG,       \* the module-level CONFIG object, shared by all requests
  CONFIG_KV,    \* the configuration store binding
  R2_BUCKET,    \* the local object store: key -> stored object or Null
  origin,       \* the source storage: key -> object or Null
  SYNC_QUEUE,   \* the messages accepted by the queue binding, oldest first
  req           \* per slot: the request in flight, its locals and its calls

vars == <<CONFIG, CONFIG_KV, R2_BUCKET, origin, SYNC_QUEUE, req>>

\* Calls a request has made on the bindings, and how each one ended.
NoCalls == [get |-> 0, fetch |-> 0, put |-> 0, delete |-> 0, send |-> 0]
NoOutcome == [get |-> "", fetch |-> "", put |-> "", delete |-> "", send |-> ""]

IdleReq ==
  [ pc        |-> "idle",
    method    |-> "", auth |-> FALSE, objectKey |-> EmptyKey,
    headers   |-> NoHeaders, body |-> "",
    isWrite   |-> FALSE,      \* isWriteOperation as computed at line 54
    object    |-> Null,       \* the local variable object of handleGetRequest
    found     |-> Null,       \* what R2_BUCKET.get returned
    calls     |-> NoCalls,
    outcome   |-> NoOutcome,
    resp      |-> Null ]

Init ==
  /\ CONFIG = DefaultConfig
  /\ CONFIG_KV \in KVStates
  /\ R2_BUCKET = [k \in ObjectKeys |-> Null]
  /\ origin \in [ObjectKeys -> {Null, OriginObject}]
  /\ SYNC_QUEUE = <<>>
  /\ req = [r \in Reqs |-> IdleReq]

\* ----------------------------------------------------------------- fetch
\* {...a, ...b} on records.
SpreadRec(a, b) ==
  [f \in DOMAIN a \cup DOMAIN b |-> IF f \in DOMAIN b THEN b[f] ELSE a[f]]

\* new RegExp(text) succeeds.
Compiles(text) == text # Malformed

\* A handler either throws (error) or reaches its first await (next).
Throws(message, status, code) ==
  [error |-> StorageErrorOf(message, status, code), next |-> "done"]
Awaits(next) == [error |-> NoError, next |-> next]

\* handleGetRequest without the check of the empty key.
GetRoute_NoKeyCheck(objectKey) == Awaits("r2_get")

\* Lines 141-147: handleGetRequest up to R2_BUCKET.get.
GetRoute(objectKey) ==
  IF objectKey = EmptyKey
    THEN Throws("Bucket listing not implemented", 501, "NotImplemented")
    ELSE Awaits("r2_get")

\* Lines 68-71 and 184-203: the PUT branch up to R2_BUCKET.put.
PutRoute(isWrite, objectKey) ==
  IF ~isWrite
    THEN Throws("Write operations not allowed on this endpoint", 403, "AccessDenied")
  ELSE IF objectKey = EmptyKey
    THEN Throws("Invalid object key", 400, "InvalidKey")
    ELSE Awaits("r2_put")

\* Lines 73-76 and 232-238: the DELETE branch up to R2_BUCKET.delete.
DeleteRoute(isWrite, objectKey) ==
  IF ~isWrite
    THEN Throws("Delete operations not allowed on this endpoint", 403, "AccessDenied")
  ELSE IF objectKey = EmptyKey
    THEN Throws("Invalid object key", 400, "InvalidKey")
    ELSE Awaits("r2_delete")

\* fetch() without the OPTIONS branch (lines 77-78).
Route_NoOptions(method, isWrite, objectKey) ==
  IF method \in {"GET", "HEAD"} THEN GetRoute(objectKey)
  ELSE IF method = "PUT" THEN PutRoute(isWrite, objectKey)
  ELSE IF method = "DELETE" THEN DeleteRoute(isWrite, objectKey)
  ELSE Throws("Method " \o method \o " not supported", 405, "MethodNotAllowed")

\* Lines 65-81: where the request goes once validateAuth has returned.
Route(method, isWrite, objectKey) ==
  IF method \in {"GET", "HEAD"} THEN GetRoute(objectKey)
  ELSE IF method = "PUT" THEN PutRoute(isWrite, objectKey)
  ELSE IF method = "DELETE" THEN DeleteRoute(isWrite, objectKey)
  ELSE IF method = "OPTIONS" THEN Awaits("done")
  ELSE Throws("Method " \o method \o " not supported", 405, "MethodNotAllowed")

\* The binding call a handler makes before its first await.
FirstCall(next) ==
  CASE next = "r2_get" -> "get" [] next = "r2_put" -> "put" [] OTHER -> "delete"

\* fetch() validating the method and the key before it calls validateAuth.
Dispatch_RoutesFirst(r, cfg) ==
  \E method \in Methods, hostname \in Hostnames, auth \in BOOLEAN, objectKey \in Keys,
     headers \in PutHeaders, body \in PutBodies \cup {""} :
    /\ IF method = "PUT" THEN body # "" ELSE body = "" /\ headers = NoHeaders
    /\ LET isWrite == isWriteOperation(cfg, hostname)
           denied  == validateAuth(isWrite, auth)
           route   == Route(method, isWrite, objectKey)
           parsed  == [req[r] EXCEPT !.method = method, !.auth = auth,
                         !.objectKey = objectKey, !.isWrite = isWrite,
                         !.headers = headers, !.body = body]
       IN req' = [req EXCEPT ![r] =
            IF route.error # NoError
              THEN [parsed EXCEPT !.pc = "done", !.resp = formatErrorResponse(route.error)]
            ELSE IF denied # NoError
              THEN [parsed EXCEPT !.pc = "done", !.resp = formatErrorResponse(denied)]
            ELSE IF route.next = "done"
              THEN [parsed EXCEPT !.pc = "done", !.resp = handleOptionsRequest]
            ELSE [parsed EXCEPT !.pc = route.next, !.calls[FirstCall(route.next)] = @ + 1]]

\* Lines 47-84, run when initializeConfig has returned: the request is
\* parsed, classified by its hostname under cfg (the CONFIG of this
\* moment), authorized and routed, up to the first await of its handler or
\* to its response.
Dispatch(r, cfg) ==
  \E method \in Methods, hostname \in Hostnames, auth \in BOOLEAN, objectKey \in Keys,
     headers \in PutHeaders, body \in PutBodies \cup {""} :
    /\ IF method = "PUT" THEN body # "" ELSE body = "" /\ headers = NoHeaders
    /\ LET isWrite == isWriteOperation(cfg, hostname)
           denied  == validateAuth(isWrite, auth)
           route   == Route(method, isWrite, objectKey)
           parsed  == [req[r] EXCEPT !.method = method, !.auth = auth,
                         !.objectKey = objectKey, !.isWrite = isWrite,
                         !.headers = headers, !.body = body]
       IN req' = [req EXCEPT ![r] =
            IF denied # NoError
              THEN [parsed EXCEPT !.pc = "done", !.resp = formatErrorResponse(denied)]
            ELSE IF route.error # NoError
              THEN [parsed EXCEPT !.pc = "done", !.resp = formatErrorResponse(route.error)]
            ELSE IF route.next = "done"
              THEN [parsed EXCEPT !.pc = "done", !.resp = handleOptionsRequest]
            ELSE [parsed EXCEPT !.pc = route.next, !.calls[FirstCall(route.next)] = @ + 1]]

\* A request arrives in a free slot; fetch() calls initializeConfig, which
\* awaits the first CONFIG_KV.get.  Nothing takes messages off SYNC_QUEUE,
\* so the run is kept finite by taking no request once MaxQueued messages
\* have been queued.
Arrive(r) ==
  /\ req[r].pc \in {"idle", "done"}
  /\ Len(SYNC_QUEUE) < MaxQueued
  /\ req' = [req EXCEPT ![r] = [IdleReq EXCEPT !.pc = "cfg_source"]]
  /\ UNCHANGED <<CONFIG, CONFIG_KV, R2_BUCKET, origin, SYNC_QUEUE>>

\* initializeConfig, lines 93-96: source_storage_config has been read, or
\* the read threw: the catch at line 108 ends the load and the request is
\* dispatched.
LoadSourceConfig(r) ==
  /\ req[r].pc = "cfg_source"
  /\ \E threw \in BOOLEAN :
       IF threw
         THEN /\ UNCHANGED CONFIG
              /\ Dispatch(r, CONFIG)
         ELSE /\ CONFIG' =
                   IF CONFIG_KV.source_storage_config # Null
                     THEN [CONFIG EXCEPT !.SOURCE_STORAGE =
                             SpreadRec(@, CONFIG_KV.source_storage_config)]
                     ELSE CONFIG
              /\ req' = [req EXCEPT ![r].pc = "cfg_read"]
  /\ UNCHANGED <<CONFIG_KV, R2_BUCKET, origin, SYNC_QUEUE>>

\* Lines 99-102: read_hostname_pattern has been read.
LoadReadPattern(r) ==
  /\ req[r].pc = "cfg_read"
  /\ \E threw \in BOOLEAN :
       LET readPattern == CONFIG_KV.read_hostname_pattern IN
       IF threw \/ (readPattern # <<>> /\ ~Compiles(readPattern))
         THEN /\ UNCHANGED CONFIG
              /\ Dispatch(r, CONFIG)
         ELSE /\ CONFIG' = IF readPattern # <<>>
                             THEN [CONFIG EXCEPT !.READ_HOSTNAME_PATTERN = readPattern]
                             ELSE CONFIG
              /\ req' = [req EXCEPT ![r].pc = "cfg_write"]
  /\ UNCHANGED <<CONFIG_KV, R2_BUCKET, origin, SYNC_QUEUE>>

\* Lines 104-107: write_hostname_pattern has been read; initializeConfig
\* returns and the request is dispatched.
LoadWritePattern(r) ==
  /\ req[r].pc = "cfg_write"
  /\ \E threw \in BOOLEAN :
       LET writePattern == CONFIG_KV.write_hostname_pattern IN
       /\ CONFIG' = IF ~threw /\ writePattern # <<>> /\ Compiles(writePattern)
                      THEN [CONFIG EXCEPT !.WRITE_HOSTNAME_PATTERN = writePattern]
                      ELSE CONFIG
       /\ Dispatch(r, CONFIG')
  /\ UNCHANGED <<CONFIG_KV, R2_BUCKET, origin, SYNC_QUEUE>>

\* ------------------------------------------------------- handleGetRequest
\* Line 150 without the test of the local object.
ShouldLazyLoad_IgnoresLocal(object, cfg) == cfg.SOURCE_STORAGE.endpoint # ""

\* Line 150: the origin is consulted on a local miss when an endpoint is
\* configured.
ShouldLazyLoad(object, cfg) == object = Null /\ cfg.SOURCE_STORAGE.endpoint # ""

\* Lines 167-177: the response for a resolved object.  object.body is a
\* ReadableStream; the Response constructor throws a TypeError for a stream
\* that is disturbed (has been read from), as the Fetch standard requires,
\* and the catch of fetch() (line 82) turns it into an error response.  The
\* HEAD branch passes no body.
ObjectResponse(method, object) ==
  IF method = "HEAD" THEN Response(200, "", getResponseHeaders(object))
  ELSE IF object.body.disturbed
    THEN formatErrorResponse(PlatformError("TypeError", "This ReadableStream is disturbed"))
    ELSE Response(200, object.body.content, getResponseHeaders(object))

\* Lines 162-177: the end of handleGetRequest.
GetResult(method, object) ==
  IF object = Null
    THEN formatErrorResponse(StorageErrorOf("Object not found", 404, "NoSuchKey"))
    ELSE ObjectResponse(method, object)

\* Lines 147-165: R2_BUCKET.get has answered (or thrown).
R2Get(r) ==
  /\ req[r].pc = "r2_get"
  /\ \E threw \in BOOLEAN :
       IF threw
         THEN req' = [req EXCEPT ![r] =
                [@ EXCEPT !.pc = "done", !.outcome.get = "threw",
                          !.resp = formatErrorResponse(PlatformError("Error", "R2 get failed"))]]
         ELSE LET stored == Held(R2_BUCKET, req[r].objectKey)
                  object == IF stored = Null THEN Null ELSE R2ObjectBody(stored)
                  got    == [req[r] EXCEPT !.object = object, !.found = object,
                               !.outcome.get = IF object = Null THEN "miss" ELSE "hit"]
              IN req' = [req EXCEPT ![r] =
                   IF ShouldLazyLoad(object, CONFIG)
                     THEN [got EXCEPT !.pc = "origin_fetch", !.calls.fetch = @ + 1]
                     ELSE [got EXCEPT !.pc = "done",
                                      !.resp = GetResult(req[r].method, object)]]
  /\ UNCHANGED <<CONFIG, CONFIG_KV, R2_BUCKET, origin, SYNC_QUEUE>>

\* ------------------------------------------------- fetchFromSourceStorage
\* What the network can do to the request to the source storage.
NetOutcomes == {"answered", "threw", "unavailable"}

\* The origin's answer: 200 with the object it holds, 404 when it holds
\* none, 503 when it is unavailable.
OriginResponse(net, held) ==
  IF net = "unavailable" THEN [status |-> 503, entity |-> OriginErrorDocument]
  ELSE IF held = Null THEN [status |-> 404, entity |-> OriginErrorDocument]
  ELSE [status |-> 200, entity |-> held]

\* Line 290 without the test of response.ok.
ResponseOk_Unchecked(status) == TRUE

\* response.ok
ResponseOk(status) == status >= 200 /\ status <= 299

\* fetchFromSourceStorage without its try/catch: a network error leaves it.
fetchFromSourceStorage_NoCatch(net, held) ==
  IF net = "threw"
    THEN [object |-> Null, error |-> PlatformError("TypeError", "fetch failed"),
          pending |-> FALSE]
  ELSE LET response == OriginResponse(net, held) IN
       IF ~ResponseOk(response.status)
         THEN [object |-> Null, error |-> NoError, pending |-> TRUE]
         ELSE [object |-> SimulatedR2Object(response.entity), error |-> NoError,
               pending |-> FALSE]

\* Lines 278-317, when the fetch of line 284 has ended: what
\* fetchFromSourceStorage returns (object), what it throws (error; nothing,
\* its catch returns null), and whether it first awaits response.text() to
\* log a response that is not ok (pending, line 291).
fetchFromSourceStorage(net, held) ==
  IF net = "threw" THEN [object |-> Null, error |-> NoError, pending |-> FALSE]
  ELSE LET response == OriginResponse(net, held) IN
       IF ~ResponseOk(response.status)
         THEN [object |-> Null, error |-> NoError, pending |-> TRUE]
         ELSE [object |-> SimulatedR2Object(response.entity), error |-> NoError,
               pending |-> FALSE]

\* Lines 151-165 and 284-291: the origin fetch has ended; on a hit
\* storeObjectInR2 is called and awaits R2_BUCKET.put; on a response that
\* is not ok fetchFromSourceStorage awaits response.text().
OriginFetch(r) ==
  /\ req[r].pc = "origin_fetch"
  /\ \E net \in NetOutcomes :
       LET result  == fetchFromSourceStorage(net, Held(origin, req[r].objectKey))
           object  == result.object
           fetched == [req[r] EXCEPT !.object = object,
                         !.outcome.fetch = IF object # Null THEN "hit"
                                           ELSE IF net = "answered" THEN "miss" ELSE net]
       IN req' = [req EXCEPT ![r] =
            IF result.error # NoError
              THEN [fetched EXCEPT !.pc = "done", !.resp = formatErrorResponse(result.error)]
            ELSE IF object # Null
              THEN [fetched EXCEPT !.pc = "wb_put", !.calls.put = @ + 1]
            ELSE IF result.pending
              THEN [fetched EXCEPT !.pc = "origin_text"]
              ELSE [fetched EXCEPT !.pc = "done", !.resp = GetResult(req[r].method, object)]]
  /\ UNCHANGED <<CONFIG, CONFIG_KV, R2_BUCKET, origin, SYNC_QUEUE>>

\* Lines 291-292, 314-317 and 162-165: response.text() has ended.  Whether
\* it resolved (line 292) or rejected (the catch, line 316),
\* fetchFromSourceStorage returns null and handleGetRequest throws 404.
OriginErrorText(r) ==
  /\ req[r].pc = "origin_text"
  /\ req' = [req EXCEPT ![r] =
       [@ EXCEPT !.pc = "done", !.resp = GetResult(req[r].method, req[r].object)]]
  /\ UNCHANGED <<CONFIG, CONFIG_KV, R2_BUCKET, origin, SYNC_QUEUE>>

\* -------------------------------------------------------- storeObjectInR2
\* How R2_BUCKET.put of a stream can end: stored; refused before the stream
\* was read; failed after reading from it.
WriteBackOutcomes == {"stored", "refused", "broke"}

\* Lines 325-332: the bucket after the put of the write-back.
storeObjectInR2(bucket, object, objectKey, outcome) ==
  IF outcome = "stored"
    THEN [bucket EXCEPT ![objectKey] =  \* objectKey is not empty (line 141)
            R2Stored(object.body.content, object.httpMetadata,
                     Spread(object.customMetadata,
                            {<<"lazyLoaded", "true">>, <<"lazyLoadedAt", "now">>}))]
    ELSE bucket

\* The stream handed to put, afterwards: put reads the stream it is given
\* (object.body itself, line 325), unless it refuses before reading.
ReadBy(body, outcome) == [body EXCEPT !.disturbed = @ \/ outcome # "refused"]

\* handleGetRequest calling storeObjectInR2 again when it returned false.
AfterWriteBack_Retry(outcome) == IF outcome = "stored" THEN "lazy_send" ELSE "wb_put"

\* Where handleGetRequest goes when storeObjectInR2 has returned: to the
\* await of queueSyncTask (line 158), whatever storeObjectInR2 returned.
AfterWriteBack(outcome) == "lazy_send"

\* ---------------------------------------------------------- queueSyncTask
\* SYNC_QUEUE.send either accepts the message or throws.
SendOutcomes == {"sent", "failed"}

\* Lines 344-354: the queue after queueSyncTask (the timestamp of the
\* message is left out).
queueSyncTask(queue, objectKey, action, outcome) ==
  IF outcome = "sent"
    THEN Append(queue, [key |-> objectKey, action |-> action])
    ELSE queue

\* Lines 155-158: the put of the write-back has ended.
WriteBack(r) ==
  /\ req[r].pc = "wb_put"
  /\ \E outcome \in WriteBackOutcomes :
       /\ R2_BUCKET' = storeObjectInR2(R2_BUCKET, req[r].object, req[r].objectKey, outcome)
       /\ LET next == AfterWriteBack(outcome) IN
          req' = [req EXCEPT ![r] =
            [@ EXCEPT !.pc = next, !.outcome.put = outcome,
                      !.object.body = ReadBy(@, outcome),
                      !.calls = IF next = "lazy_send"
                                  THEN [@ EXCEPT !.send = @ + 1]
                                  ELSE [@ EXCEPT !.put = @ + 1]]]
  /\ UNCHANGED <<CONFIG, CONFIG_KV, origin, SYNC_QUEUE>>

\* Lines 158-177: the send of LAZY_LOADED has ended; the object is returned.
LazyLoadedSent(r) ==
  /\ req[r].pc = "lazy_send"
  /\ \E outcome \in SendOutcomes :
       /\ SYNC_QUEUE' = queueSyncTask(SYNC_QUEUE, req[r].objectKey, "LAZY_LOADED", outcome)
       /\ req' = [req EXCEPT ![r] =
            [@ EXCEPT !.pc = "done", !.outcome.send = outcome,
                      !.resp = GetResult(req[r].method, req[r].object)]]
  /\ UNCHANGED <<CONFIG, CONFIG_KV, R2_BUCKET, origin>>

\* ------------------------------------------------------- handlePutRequest
\* Lines 189-209: what the PUT stores.
PutStored(headers, body) ==
  R2Stored(body,
    [contentType  |-> IF headers.ContentType = "" THEN "application/octet-stream"
                      ELSE headers.ContentType,
     cacheControl |-> IF headers.CacheControl = "" THEN DEFAULT_CACHE_CONTROL
                      ELSE headers.CacheControl],
    headers.meta)

\* Lines 215-221.
PutResponse(object) ==
  Response(200, "",
    [ContentType |-> "application/xml", ContentLength |-> "", ETag |-> object.httpEtag,
     CacheControl |-> "", meta |-> {}, AccessControlAllowOrigin |-> ""])

\* handlePutRequest marking an object it replaces (customMetadata gains
\* replaced: 'true' when the key is already held).
R2Put_MarksReplaced(r) ==
  /\ req[r].pc = "r2_put"
  /\ \E outcome \in {"stored", "failed"} :
       IF outcome = "stored"
         THEN LET put    == PutStored(req[r].headers, req[r].body)
                  object == IF Held(R2_BUCKET, req[r].objectKey) = Null THEN put
                            ELSE [put EXCEPT !.customMetadata =
                                    Spread(@, {<<"replaced", "true">>})]
              IN
              /\ R2_BUCKET' = [R2_BUCKET EXCEPT ![req[r].objectKey] = object]
              /\ req' = [req EXCEPT ![r] =
                   [@ EXCEPT !.pc = "put_send", !.outcome.put = outcome,
                             !.object = object, !.calls.send = @ + 1]]
         ELSE /\ UNCHANGED R2_BUCKET
              /\ req' = [req EXCEPT ![r] =
                   [@ EXCEPT !.pc = "done", !.outcome.put = outcome,
                             !.resp = formatErrorResponse(
                                        StorageErrorOf("Upload failed", 500, "InternalError"))]]
  /\ UNCHANGED <<CONFIG, CONFIG_KV, origin, SYNC_QUEUE>>

\* Lines 203-212 and 222-224: R2_BUCKET.put has ended.
R2Put(r) ==
  /\ req[r].pc = "r2_put"
  /\ \E outcome \in {"stored", "failed"} :
       IF outcome = "stored"
         THEN LET object == PutStored(req[r].headers, req[r].body) IN
              /\ R2_BUCKET' = [R2_BUCKET EXCEPT ![req[r].objectKey] = object]
              /\ req' = [req EXCEPT ![r] =
                   [@ EXCEPT !.pc = "put_send", !.outcome.put = outcome,
                             !.object = object, !.calls.send = @ + 1]]
         ELSE /\ UNCHANGED R2_BUCKET
              /\ req' = [req EXCEPT ![r] =
                   [@ EXCEPT !.pc = "done", !.outcome.put = outcome,
                             !.resp = formatErrorResponse(
                                        StorageErrorOf("Upload failed", 500, "InternalError"))]]
  /\ UNCHANGED <<CONFIG, CONFIG_KV, origin, SYNC_QUEUE>>

\* Lines 212-221: the send of UPLOADED has ended.
UploadedSent(r) ==
  /\ req[r].pc = "put_send"
  /\ \E outcome \in SendOutcomes :
       /\ SYNC_QUEUE' = queueSyncTask(SYNC_QUEUE, req[r].objectKey, "UPLOADED", outcome)
       /\ req' = [req EXCEPT ![r] =
            [@ EXCEPT !.pc = "done", !.outcome.send = outcome,
                      !.resp = PutResponse(req[r].object)]]
  /\ UNCHANGED <<CONFIG, CONFIG_KV, R2_BUCKET, origin>>

\* ---------------------------------------------------- handleDeleteRequest
\* handleDeleteRequest queueing DELETED whether or not the delete succeeded.
R2Delete_NotifiesAnyway(r) ==
  /\ req[r].pc = "r2_delete"
  /\ \E outcome \in {"deleted", "failed"} :
       /\ R2_BUCKET' = IF outcome = "deleted"
                         THEN [R2_BUCKET EXCEPT ![req[r].objectKey] = Null]
                         ELSE R2_BUCKET
       /\ req' = [req EXCEPT ![r] =
            [@ EXCEPT !.pc = "delete_send", !.outcome.delete = outcome,
                      !.calls.send = @ + 1]]
  /\ UNCHANGED <<CONFIG, CONFIG_KV, origin, SYNC_QUEUE>>

\* Lines 238-241 and 247-249: R2_BUCKET.delete has ended.
R2Delete(r) ==
  /\ req[r].pc = "r2_delete"
  /\ \E outcome \in {"deleted", "failed"} :
       IF outcome = "deleted"
         THEN /\ R2_BUCKET' = [R2_BUCKET EXCEPT ![req[r].objectKey] = Null]
              /\ req' = [req EXCEPT ![r] =
                   [@ EXCEPT !.pc = "delete_send", !.outcome.delete = outcome,
                             !.calls.send = @ + 1]]
         ELSE /\ UNCHANGED R2_BUCKET
              /\ req' = [req EXCEPT ![r] =
                   [@ EXCEPT !.pc = "done", !.outcome.delete = outcome,
                             !.resp = formatErrorResponse(
                                        StorageErrorOf("Delete failed", 500, "InternalError"))]]
  /\ UNCHANGED <<CONFIG, CONFIG_KV, origin, SYNC_QUEUE>>

\* Lines 241-246: the send of DELETED has ended.
DeletedSent(r) ==
  /\ req[r].pc = "delete_send"
  /\ \E outcome \in SendOutcomes :
       /\ SYNC_QUEUE' = queueSyncTask(SYNC_QUEUE, req[r].objectKey, "DELETED", outcome)
       /\ req' = [req EXCEPT ![r] =
            [@ EXCEPT !.pc = "done", !.outcome.send = outcome,
                      !.resp = Response(204, "", NoResponseHeaders)]]
  /\ UNCHANGED <<CONFIG, CONFIG_KV, R2_BUCKET, origin>>

Next ==
  \/ \E r \in Reqs : Arrive(r)
  \/ \E r \in Reqs : LoadSourceConfig(r)
  \/ \E r \in Reqs : LoadReadPattern(r)
  \/ \E r \in Reqs : LoadWritePattern(r)
  \/ \E r \in Reqs : R2Get(r)
  \/ \E r \in Reqs : OriginFetch(r)
  \/ \E r \in Reqs : OriginErrorText(r)
  \/ \E r \in Reqs : WriteBack(r)
  \/ \E r \in Reqs : LazyLoadedSent(r)
  \/ \E r \in Reqs : R2Put(r)
  \/ \E r \in Reqs : UploadedSent(r)
  \/ \E r \in Reqs : R2Delete(r)
  \/ \E r \in Reqs : DeletedSent(r)

Spec == Init /\ [][Next]_vars

\* ------------------------------------------------- requests in a race
\* A second specification for the claims about requests that overlap: one
\* more slot than Spec has, each slot serving one request, and a workload of
\* allowed requests for one key (GET and HEAD sent to read hosts without an
\* Authorization header, PUT and DELETE sent to write hosts with one),
\* with a source storage and patterns that compile in CONFIG_KV, and the
\* key held by the source storage.  The slots are interchangeable, so
\* requests take them in order.  The handlers are those of Spec.
RaceReqs == 1..(MaxInflight + 1)

RaceRequest(q) ==
  q.method # "" =>
    /\ q.method \in {"GET", "HEAD", "PUT", "DELETE"}
    /\ q.objectKey \in ObjectKeys
    /\ q.auth = q.isWrite
    /\ q.isWrite = (q.method \in {"PUT", "DELETE"})

InitRace ==
  /\ CONFIG = DefaultConfig
  /\ CONFIG_KV \in {kv \in KVStates : /\ kv.source_storage_config # Null
                                      /\ Compiles(kv.read_hostname_pattern)}
  /\ R2_BUCKET = [k \in ObjectKeys |-> Null]
  /\ origin = [k \in ObjectKeys |-> OriginObject]
  /\ SYNC_QUEUE = <<>>
  /\ req = [r \in RaceReqs |-> IdleReq]

RaceArrive(r) ==
  /\ req[r].pc = "idle"
  /\ \A q \in RaceReqs : q < r => req[q].pc # "idle"
  /\ req' = [req EXCEPT ![r] = [IdleReq EXCEPT !.pc = "cfg_source"]]
  /\ UNCHANGED <<CONFIG, CONFIG_KV, R2_BUCKET, origin, SYNC_QUEUE>>
RaceLoadSourceConfig(r) == LoadSourceConfig(r) /\ RaceRequest(req'[r])
RaceLoadReadPattern(r) == LoadReadPattern(r) /\ RaceRequest(req'[r])
RaceLoadWritePattern(r) == LoadWritePattern(r) /\ RaceRequest(req'[r])

NextRace ==
  \/ \E r \in RaceReqs : RaceArrive(r)
  \/ \E r \in RaceReqs : RaceLoadSourceConfig(r)
  \/ \E r \in RaceReqs : RaceLoadReadPattern(r)
  \/ \E r \in RaceReqs : RaceLoadWritePattern(r)
  \/ \E r \in RaceReqs : R2Get(r)
  \/ \E r \in RaceReqs : OriginFetch(r)
  \/ \E r \in RaceReqs : OriginErrorText(r)
  \/ \E r \in RaceReqs : WriteBack(r)
  \/ \E r \in RaceReqs : LazyLoadedSent(r)
  \/ \E r \in RaceReqs : R2Put(r)
  \/ \E r \in RaceReqs : UploadedSent(r)
  \/ \E r \in RaceReqs : R2Delete(r)
  \/ \E r \in RaceReqs : DeletedSent(r)

SpecRace == InitRace /\ [][NextRace]_vars

\* ================================================================ claims
Served(r) == req[r].pc = "done"
Reading(r) == req[r].method \in {"GET", "HEAD"}
TheKey == CHOOSE k \in ObjectKeys : TRUE

\* C1: a GET/HEAD whose key R2_BUCKET.get finds is answered at once with
\* that object (200, its headers, for GET its bytes) and calls neither the
\* origin nor R2_BUCKET.put nor SYNC_QUEUE.send, whatever CONFIG holds.
C1_LocalHitServedLocally ==
  \A r \in Reqs :
    (Reading(r) /\ req[r].outcome.get = "hit") =>
      /\ Served(r)
      /\ req[r].resp.status = 200
      /\ req[r].resp.headers = getResponseHeaders(req[r].found)
      /\ req[r].resp.headers.meta = req[r].found.customMetadata
      /\ req[r].resp.body = IF req[r].method = "GET" THEN req[r].found.body.content ELSE ""
      /\ req[r].calls.fetch = 0
      /\ req[r].calls.put = 0
      /\ req[r].calls.send = 0

\* A GET served from the bucket although an origin is configured and holds
\* the key.
C1_Witness ==
  \E r \in Reqs :
    /\ Served(r) /\ req[r].method = "GET" /\ req[r].outcome.get = "hit"
    /\ req[r].resp.status = 200
    /\ CONFIG.SOURCE_STORAGE.endpoint # ""
    /\ origin[req[r].objectKey] # Null

\* C2 (as claimed): a GET/HEAD that misses locally and finds the key at the
\* origin returns the origin object with success, attempts exactly one
\* LAZY_LOADED send, and leaves the key in the bucket (once its write-back
\* has stored it).
C2_LazyLoadReturnsOriginObject ==
  \A r \in Reqs :
    (Reading(r) /\ Served(r) /\ req[r].outcome.get = "miss" /\ req[r].outcome.fetch = "hit") =>
      /\ req[r].resp.status = 200
      /\ req[r].resp.body = IF req[r].method = "GET" THEN OriginObject.content ELSE ""
      /\ req[r].resp.headers.ETag = OriginObject.ETag
      /\ req[r].calls.send = 1
      /\ req[r].outcome.put = "stored" => R2_BUCKET[req[r].objectKey] # Null

\* C3: a GET/HEAD for a key that R2_BUCKET.get does not find and the origin
\* does not hold ends in 404 NoSuchKey, and the request calls neither
\* R2_BUCKET.put nor SYNC_QUEUE.send.
C3_AbsentFromBothIsNotFound ==
  \A r \in Reqs :
    (Reading(r) /\ req[r].outcome.get = "miss" /\ Held(origin, req[r].objectKey) = Null) =>
      /\ req[r].calls.put = 0
      /\ req[r].calls.send = 0
      /\ Served(r) =>
           /\ req[r].resp.status = 404
           /\ req[r].resp.code = "NoSuchKey"

\* A GET that asked the origin, got its 404, and ended.
C3_Witness ==
  \E r \in Reqs :
    /\ Served(r) /\ req[r].method = "GET" /\ req[r].outcome.get = "miss"
    /\ origin[req[r].objectKey] = Null
    /\ req[r].calls.fetch = 1 /\ req[r].outcome.fetch = "miss"
    /\ req[r].resp.status = 404

\* C4: when the origin fetch throws or is answered with a non-2xx status,
\* the request ends as for a key absent from both stores: 404 NoSuchKey
\* with the same message, no 5xx, no R2_BUCKET.put, no SYNC_QUEUE.send.
C4_OriginFailureIsMiss ==
  \A r \in Reqs :
    (Reading(r) /\ req[r].outcome.fetch \in {"threw", "unavailable"}) =>
      /\ req[r].calls.put = 0
      /\ req[r].calls.send = 0
      /\ req[r].pc \in {"origin_text", "done"}
      /\ Served(r) =>
           /\ req[r].resp.status = 404
           /\ req[r].resp.code = "NoSuchKey"
           /\ req[r].resp.message = "Object not found"

\* A GET whose origin fetch threw although the origin holds the key.
C4_Witness ==
  \E r \in Reqs :
    /\ Served(r) /\ req[r].method = "GET" /\ req[r].outcome.fetch = "threw"
    /\ origin[req[r].objectKey] # Null
    /\ req[r].resp.status = 404

\* C5 (as claimed): when the put of the write-back fails, the request still
\* returns the origin object with success, has called put once only, and
\* has attempted the LAZY_LOADED send.
C5_WriteBackFailureStillServes ==
  \A r \in Reqs :
    (Reading(r) /\ Served(r) /\ req[r].outcome.put \in {"refused", "broke"}) =>
      /\ req[r].resp.status = 200
      /\ req[r].resp.body = IF req[r].method = "GET" THEN OriginObject.content ELSE ""
      /\ req[r].calls.put = 1
      /\ req[r].calls.send = 1

\* C6: a PUT or DELETE on a host that is not write-designated is refused
\* with 403 AccessDenied with or without an Authorization header; on a
\* write-designated host without the header it is refused with 401
\* AccessDenied; neither calls R2_BUCKET.put or delete.  On a
\* write-designated host, with the header and a non-empty key, the store
\* operation of the method is called.
C6_WritesGatedByIntentAndHeader ==
  \A r \in Reqs :
    req[r].method \in {"PUT", "DELETE"} =>
      LET mine  == IF req[r].method = "PUT" THEN req[r].calls.put ELSE req[r].calls.delete
          other == IF req[r].method = "PUT" THEN req[r].calls.delete ELSE req[r].calls.put
      IN
      /\ ~req[r].isWrite =>
           /\ Served(r) /\ req[r].resp.status = 403 /\ req[r].resp.code = "AccessDenied"
           /\ mine = 0 /\ other = 0
      /\ (req[r].isWrite /\ ~req[r].auth) =>
           /\ Served(r) /\ req[r].resp.status = 401 /\ req[r].resp.code = "AccessDenied"
           /\ mine = 0 /\ other = 0
      /\ (req[r].isWrite /\ req[r].auth /\ req[r].objectKey # EmptyKey) =>
           /\ mine = 1 /\ other = 0

\* A PUT that carries the header and is refused for the host's intent.
C6_Witness ==
  \E r \in Reqs :
    /\ Served(r) /\ req[r].method = "PUT" /\ ~req[r].isWrite /\ req[r].auth
    /\ req[r].objectKey # EmptyKey
    /\ req[r].resp.status = 403

\* C7 (as claimed): a GET/HEAD for a non-empty key reaches the resolver
\* (R2_BUCKET.get is called) whatever the host's intent and with or without
\* an Authorization header, and is never answered AccessDenied.
C7_ReadsNeverDenied ==
  \A r \in Reqs :
    (Reading(r) /\ req[r].objectKey # EmptyKey) =>
      /\ req[r].calls.get = 1
      /\ Served(r) => req[r].resp.code # "AccessDenied"

\* C7 (amended): a GET/HEAD for a non-empty key reaches the resolver
\* whatever the host's intent, except on a write-designated host without an
\* Authorization header, where it is refused with 401 AccessDenied before
\* any store call; no other read is answered AccessDenied.
C7_ReadsDeniedOnlyWithoutHeaderOnWriteHost ==
  \A r \in Reqs :
    (Reading(r) /\ req[r].objectKey # EmptyKey) =>
      IF req[r].isWrite /\ ~req[r].auth
        THEN /\ Served(r)
             /\ req[r].resp.status = 401 /\ req[r].resp.code = "AccessDenied"
             /\ req[r].calls = NoCalls
        ELSE /\ req[r].calls.get = 1
             /\ Served(r) => req[r].resp.code # "AccessDenied"

\* A GET on a write-designated host, with the header, resolved from the
\* bucket.
C7_Witness ==
  \E r \in Reqs :
    /\ Served(r) /\ req[r].method = "GET" /\ req[r].isWrite /\ req[r].auth
    /\ req[r].calls.get = 1 /\ req[r].resp.status = 200

\* C8 (as claimed): a GET with the empty key is answered 501 NotImplemented
\* on every host, with or without an Authorization header, and calls no
\* binding.
C8_EmptyKeyGetIs501 ==
  \A r \in Reqs :
    (req[r].method = "GET" /\ req[r].objectKey = EmptyKey) =>
      /\ Served(r)
      /\ req[r].resp.status = 501 /\ req[r].resp.code = "NotImplemented"
      /\ req[r].calls = NoCalls

\* C8 (amended): a GET with the empty key calls no binding and is answered
\* 501 NotImplemented, except on a write-designated host without an
\* Authorization header, where it is answered 401 AccessDenied.
C8_EmptyKeyGetIs501UnlessUnauthorized ==
  \A r \in Reqs :
    (req[r].method = "GET" /\ req[r].objectKey = EmptyKey) =>
      /\ Served(r)
      /\ req[r].calls = NoCalls
      /\ IF req[r].isWrite /\ ~req[r].auth
           THEN req[r].resp.status = 401 /\ req[r].resp.code = "AccessDenied"
           ELSE req[r].resp.status = 501 /\ req[r].resp.code = "NotImplemented"

\* A GET with the empty key on a write-designated host, with the header,
\* answered 501 while the bucket holds an object.
C8_Witness ==
  \E r \in Reqs :
    /\ Served(r) /\ req[r].method = "GET" /\ req[r].objectKey = EmptyKey
    /\ req[r].isWrite /\ req[r].auth
    /\ req[r].resp.status = 501
    /\ R2_BUCKET[TheKey] # Null

\* C9: a GET/HEAD calls R2_BUCKET.put at most once and SYNC_QUEUE.send at
\* most once, and calls neither unless its origin fetch returned an object:
\* not when it is served from the bucket, not when it ends in 404; however
\* the put and the send end.
C9_AtMostOnePutAndOneSend ==
  \A r \in Reqs :
    Reading(r) =>
      /\ req[r].calls.put <= 1
      /\ req[r].calls.send <= 1
      /\ req[r].outcome.fetch # "hit" => (req[r].calls.put = 0 /\ req[r].calls.send = 0)
      /\ req[r].outcome.get = "hit" => (req[r].calls.put = 0 /\ req[r].calls.send = 0)
      /\ (Served(r) /\ req[r].resp.status = 404) =>
           (req[r].calls.put = 0 /\ req[r].calls.send = 0)

\* A lazy load whose put failed and whose send failed, ended.
C9_Witness ==
  \E r \in Reqs :
    /\ Served(r) /\ Reading(r) /\ req[r].outcome.fetch = "hit"
    /\ req[r].outcome.put = "broke" /\ req[r].outcome.send = "failed"
    /\ req[r].calls.put = 1 /\ req[r].calls.send = 1

\* C10 (as claimed): when SYNC_QUEUE.send fails, a lazy-load GET/HEAD still
\* answers 200 with the object, an allowed PUT 200 with the ETag, an allowed
\* DELETE 204 with no body, as they do when the send succeeds.
C10_SendFailureLeavesResponse ==
  \A r \in Reqs :
    (Served(r) /\ req[r].outcome.send = "failed") =>
      /\ Reading(r) =>
           /\ req[r].resp.status = 200
           /\ req[r].resp.body = IF req[r].method = "GET" THEN OriginObject.content ELSE ""
      /\ req[r].method = "PUT" =>
           /\ req[r].resp.status = 200 /\ req[r].resp.body = ""
           /\ req[r].resp.headers.ETag = R2Etag(req[r].body)
      /\ req[r].method = "DELETE" =>
           /\ req[r].resp.status = 204 /\ req[r].resp.body = ""

\* C12 (as claimed): in a resolution that hits the origin, the stream the
\* GET response is built from (object.body at line 175) has not been read
\* by the R2_BUCKET.put of the write-back (line 325): the body is read at
\* most once, and the client gets status 200 with the origin's bytes.
C12_BodyStreamReadOnce ==
  \A r \in Reqs :
    (req[r].method = "GET" /\ Served(r) /\ req[r].outcome.fetch = "hit") =>
      /\ ~req[r].object.body.disturbed
      /\ req[r].resp.status = 200
      /\ req[r].resp.body = OriginObject.content

\* The statuses of the error taxonomy, and the messages of the StorageErrors
\* the proxy itself raises (lines 123, 69, 74, 80, 143, 164, 185, 233, 224,
\* 249) with the generic message of formatErrorResponse (line 393).
TaxonomyStatuses == {400, 401, 403, 404, 405, 500, 501}
OwnMessages ==
  { "Authentication required", "Write operations not allowed on this endpoint",
    "Delete operations not allowed on this endpoint", "Method POST not supported",
    "Bucket listing not implemented", "Object not found", "Invalid object key",
    "Upload failed", "Delete failed", "Internal Server Error" }

\* C13 (as claimed): a request has a response exactly when it has ended;
\* every failure response is the XML error envelope with a status of the
\* taxonomy; a failure the proxy did not raise itself is answered 500
\* InternalError with the generic message, never with the message of the
\* error that caused it.
C13_FailuresNormalized ==
  \A r \in Reqs :
    /\ Served(r) <=> req[r].resp # Null
    /\ (Served(r) /\ req[r].resp.code # "") =>
         /\ req[r].resp.status \in TaxonomyStatuses
         /\ req[r].resp.body = "<Error>"
         /\ req[r].resp.headers.ContentType = "application/xml"
         /\ req[r].resp.message \in OwnMessages
    /\ (Served(r) /\ req[r].outcome.get = "threw") =>
         /\ req[r].resp.status = 500
         /\ req[r].resp.code = "InternalError"
         /\ req[r].resp.message = "Internal Server Error"

\* A GET/HEAD that missed in the bucket and found its key at the origin.
LazyLoaded(r) ==
  Reading(r) /\ req[r].outcome.get = "miss" /\ req[r].outcome.fetch = "hit"

\* C11 (as claimed): when the requests in flight together are all GET/HEAD
\* that missed the same key in the bucket and found it at the origin, then
\* in every interleaving each of them answers 200 with the origin object
\* and, once all have ended, the bucket holds the key with the origin's
\* content, exactly what a single write-back stores.
C11_ConcurrentMissesConverge ==
  (\A r \in RaceReqs : Served(r) /\ LazyLoaded(r) /\ req[r].objectKey = TheKey) =>
    /\ \A r \in RaceReqs :
         /\ req[r].resp.status = 200
         /\ req[r].resp.body = IF req[r].method = "GET" THEN OriginObject.content ELSE ""
    /\ (\E r \in RaceReqs : req[r].outcome.put = "stored") =>
         \A r \in RaceReqs :
           R2_BUCKET = storeObjectInR2(R2_BUCKET, req[r].object, TheKey, "stored")

\* What the store shows of an object, its ETag apart.
Observable(stored) ==
  IF stored = Null THEN Null
  ELSE [content |-> stored.content, contentType |-> stored.httpMetadata.contentType,
        cacheControl |-> stored.httpMetadata.cacheControl,
        customMetadata |-> stored.customMetadata]

\* The request of slot r has changed the bucket.
Wrote(r) == req[r].outcome.put = "stored" \/ req[r].outcome.delete = "deleted"

\* C14: when the only writes the bucket has taken are n >= 1 allowed PUTs of
\* one key with identical body and headers, it holds that key with exactly
\* the content, content type, cache-control and custom metadata that one
\* such PUT stores.
C14_PutIdempotent ==
  \A r \in RaceReqs :
    ( /\ req[r].method = "PUT" /\ req[r].outcome.put = "stored"
      /\ \A q \in RaceReqs :
           Wrote(q) => /\ req[q].method = "PUT"
                       /\ req[q].objectKey = req[r].objectKey
                       /\ req[q].headers = req[r].headers
                       /\ req[q].body = req[r].body ) =>
      Observable(R2_BUCKET[req[r].objectKey]) =
        Observable(PutStored(req[r].headers, req[r].body))

\* Two identical PUTs have stored and ended.
C14_Witness ==
  \E r, q \in RaceReqs :
    /\ r # q /\ Served(r) /\ Served(q)
    /\ req[r].method = "PUT" /\ req[q].method = "PUT"
    /\ req[r].outcome.put = "stored" /\ req[q].outcome.put = "stored"
    /\ req[r].headers = req[q].headers /\ req[r].body = req[q].body
    /\ req[r].headers.meta # {}
    /\ Observable(R2_BUCKET[TheKey]) = Observable(PutStored(req[r].headers, req[r].body))

\* The object of the bucket was put there by a write-back (line 329).
HoldsLazyLoaded(objectKey) ==
  /\ R2_BUCKET[objectKey] # Null
  /\ <<"lazyLoaded", "true">> \in R2_BUCKET[objectKey].customMetadata

\* C15 (as claimed): a GET that lazy-loads its key and whose write-back
\* stores it answers 200 with the origin's bytes tagged x-amz-meta-source:
\* lazy-loaded; and a GET that later finds that object in the bucket answers
\* 200 with the same bytes and content type without calling the origin.
C15_LazyLoadThenLocal ==
  \A r \in Reqs :
    /\ ( /\ req[r].method = "GET" /\ Served(r)
         /\ req[r].outcome.fetch = "hit" /\ req[r].outcome.put = "stored" ) =>
         /\ req[r].resp.status = 200
         /\ req[r].resp.body = OriginObject.content
         /\ <<"source", "lazy-loaded">> \in req[r].resp.headers.meta
    /\ ( /\ req[r].method = "GET" /\ Served(r)
         /\ req[r].outcome.get = "hit" /\ HoldsLazyLoaded(req[r].objectKey) ) =>
         /\ req[r].resp.status = 200
         /\ req[r].resp.body = OriginObject.content
         /\ req[r].resp.headers.ContentType = OriginObject.ContentType
         /\ req[r].calls.fetch = 0

\* CONFIG after an initializeConfig that completed all three steps (lines
\* 93-107) on the configuration store kv.
LoadedConfig(kv) ==
  [ READ_HOSTNAME_PATTERN  |-> IF kv.read_hostname_pattern # <<>>
                                 THEN kv.read_hostname_pattern
                                 ELSE DefaultConfig.READ_HOSTNAME_PATTERN,
    WRITE_HOSTNAME_PATTERN |-> IF kv.write_hostname_pattern # <<>>
                                 THEN kv.write_hostname_pattern
                                 ELSE DefaultConfig.WRITE_HOSTNAME_PATTERN,
    SOURCE_STORAGE         |-> IF kv.source_storage_config # Null
                                 THEN SpreadRec(DefaultConfig.SOURCE_STORAGE,
                                                kv.source_storage_config)
                                 ELSE DefaultConfig.SOURCE_STORAGE ]

\* The configurations of a complete successful load, or the defaults.
CompleteConfigs ==
  {DefaultConfig} \cup
    IF Compiles(CONFIG_KV.read_hostname_pattern) /\ Compiles(CONFIG_KV.write_hostname_pattern)
      THEN {LoadedConfig(CONFIG_KV)}
      ELSE {}

\* C16 (as claimed): a load that fails at any step leaves CONFIG as it was
\* before that load, so whenever no load is between its steps CONFIG is the
\* defaults or the result of a complete successful load, with no field
\* updated alone.
C16_FailedLoadLeavesConfig ==
  (\A r \in Reqs : req[r].pc \notin {"cfg_read", "cfg_write"}) =>
    CONFIG \in CompleteConfigs

\* C17: a PUT calls SYNC_QUEUE.send (UPLOADED) at most once and only when
\* its R2_BUCKET.put has succeeded, a DELETE calls it (DELETED) at most once
\* and only when its R2_BUCKET.delete has succeeded; when the store
\* operation fails the request answers 500 InternalError and sends nothing;
\* a send that succeeded has left the request's event in the queue.
C17_StoreThenNotify ==
  /\ \A r \in Reqs :
       /\ req[r].method = "PUT" =>
            /\ req[r].calls.send <= 1
            /\ req[r].calls.send = 1 => req[r].outcome.put = "stored"
            /\ req[r].outcome.put = "failed" =>
                 /\ Served(r) /\ req[r].calls.send = 0
                 /\ req[r].resp.status = 500 /\ req[r].resp.code = "InternalError"
       /\ req[r].method = "DELETE" =>
            /\ req[r].calls.send <= 1
            /\ req[r].calls.send = 1 => req[r].outcome.delete = "deleted"
            /\ req[r].outcome.delete = "failed" =>
                 /\ Served(r) /\ req[r].calls.send = 0
                 /\ req[r].resp.status = 500 /\ req[r].resp.code = "InternalError"
  /\ \A r \in Reqs :
       req[r].outcome.send = "sent" =>
         \E i \in 1..Len(SYNC_QUEUE) :
           /\ SYNC_QUEUE[i].key = req[r].objectKey
           /\ SYNC_QUEUE[i].action =
                CASE req[r].method = "PUT" -> "UPLOADED"
                  [] req[r].method = "DELETE" -> "DELETED"
                  [] OTHER -> "LAZY_LOADED"

\* A DELETE whose R2_BUCKET.delete failed has answered 500 and sent nothing.
C17_Witness ==
  \E r \in Reqs :
    /\ Served(r) /\ req[r].method = "DELETE" /\ req[r].outcome.delete = "failed"
    /\ req[r].resp.status = 500 /\ req[r].calls.send = 0
    /\ SYNC_QUEUE = <<>>

\* C18 (as claimed): OPTIONS always answers with the static CORS descriptor
\* and calls no binding, on every host, with or without an Authorization
\* header.
C18_OptionsAlwaysCors ==
  \A r \in Reqs :
    req[r].method = "OPTIONS" =>
      /\ Served(r)
      /\ req[r].resp = handleOptionsRequest
      /\ req[r].calls = NoCalls

\* C18 (amended): OPTIONS calls no binding and answers with the static CORS
\* descriptor, except on a write host without an Authorization header, where
\* validateAuth answers 401 AccessDenied first.
C18_OptionsCorsUnlessUnauthorized ==
  \A r \in Reqs :
    req[r].method = "OPTIONS" =>
      /\ Served(r)
      /\ req[r].calls = NoCalls
      /\ IF req[r].isWrite /\ ~req[r].auth
           THEN req[r].resp.status = 401 /\ req[r].resp.code = "AccessDenied"
           ELSE req[r].resp = handleOptionsRequest

\* OPTIONS on a write host with the header, answered with the descriptor.
C18_Witness ==
  \E r \in Reqs :
    /\ req[r].method = "OPTIONS" /\ Served(r) /\ req[r].isWrite /\ req[r].auth
    /\ req[r].resp.status = 200
    /\ req[r].resp.headers.AccessControlAllowOrigin = "*"

\* C19: a request of any method to a write host that carries no
\* Authorization header is answered 401 AccessDenied before its key and its
\* method are looked at, having called none of R2_BUCKET.get/put/delete, the
\* origin and SYNC_QUEUE.send.
C19_UnauthorizedTouchesNothing ==
  \A r \in Reqs :
    (req[r].method # "" /\ req[r].isWrite /\ ~req[r].auth) =>
      /\ Served(r)
      /\ req[r].resp.status = 401
      /\ req[r].resp.code = "AccessDenied"
      /\ req[r].calls = NoCalls
      /\ req[r].outcome = NoOutcome

\* A PUT with an empty key and no header on a write host, answered 401
\* (not 400), the bucket still empty.
C19_Witness ==
  \E r \in Reqs :
    /\ Served(r) /\ req[r].method = "PUT" /\ req[r].objectKey = EmptyKey
    /\ req[r].isWrite /\ ~req[r].auth
    /\ req[r].resp.status = 401
    /\ \A k \in ObjectKeys : R2_BUCKET[k] = Null

\* A GET/HEAD of slot q has missed objectKey in the bucket and may still
\* write it back (it awaits the origin or the put of its write-back).
LazyLoadPending(q, objectKey) ==
  req[q].pc \in {"origin_fetch", "wb_put"} /\ req[q].objectKey = objectKey

\* The bucket holds under objectKey what a client PUT stored there, and no
\* lazy load of that key is pending.
ClientWriteSettled(objectKey) ==
  /\ R2_BUCKET[objectKey] # Null
  /\ ~HoldsLazyLoaded(objectKey)
  /\ \A q \in RaceReqs : ~LazyLoadPending(q, objectKey)

\* The bucket holds nothing under objectKey and no lazy load of that key is
\* pending.
DeleteSettled(objectKey) ==
  /\ R2_BUCKET[objectKey] = Null
  /\ \A q \in RaceReqs : ~LazyLoadPending(q, objectKey)

\* This step ends the R2_BUCKET.put of a PUT or the R2_BUCKET.delete of a
\* DELETE.
ClientWriteLands ==
  \E r \in RaceReqs : req[r].pc \in {"r2_put", "r2_delete"} /\ req'[r].pc # req[r].pc

\* C20 (as claimed): a PUT that answered 200 is never lost to a lazy-load
\* race: when the other requests are GET/HEAD and all have ended, the bucket
\* holds the PUT's content.
C20_ClientWriteNeverLost ==
  \A r \in RaceReqs :
    ( /\ req[r].method = "PUT" /\ Served(r) /\ req[r].resp.status = 200
      /\ \A q \in RaceReqs \ {r} : Served(q) /\ Reading(q) ) =>
      /\ R2_BUCKET[req[r].objectKey] # Null
      /\ R2_BUCKET[req[r].objectKey].content = req[r].body

\* C20 (amended): a client write survives when no lazy load that missed the
\* key is still pending as it lands.  Once the bucket holds a PUT's object
\* with no lazy load of the key pending, it holds that object, and no lazy
\* load of the key starts, until a later PUT or DELETE lands; once a key is
\* deleted with no lazy load pending, it stays absent until a PUT lands or a
\* GET/HEAD that misses it afterwards starts a lazy load.
C20_WriteSurvivesSettledLazyLoads ==
  [][\A k \in ObjectKeys :
       /\ (ClientWriteSettled(k) /\ ~ClientWriteLands) =>
            (R2_BUCKET'[k] = R2_BUCKET[k] /\ ClientWriteSettled(k)')
       /\ (DeleteSettled(k) /\ ~ClientWriteLands) => R2_BUCKET'[k] = Null]_vars

\* A GET missed, wrote the origin's object back and ended; a PUT that landed
\* after that write-back answered 200 and the bucket holds its content.
C20_Witness ==
  \E r, q \in RaceReqs :
    /\ req[r].method = "PUT" /\ Served(r) /\ req[r].resp.status = 200
    /\ Reading(q) /\ Served(q) /\ req[q].outcome.put = "stored"
    /\ ClientWriteSettled(TheKey)
    /\ R2_BUCKET[TheKey].content = req[r].body

====
